---- MODULE Spec2Model ----
(***************************************************************************)
(* A model of wordler (src/src/main.rs): a Wordle REPL.  A Game is built   *)
(* from a dictionary text (impl From<String> for Game), then Game::repl    *)
(* reads one line per iteration, parses it (impl FromStr for Command) and  *)
(* evaluates it (Game::eval, Game::guess, Game::letters, Game::help).      *)
(*                                                                         *)
(* Text is modelled as a sequence of characters, a character as a string   *)
(* naming it.  Rust's String::len counts UTF-8 bytes, chars() iterates     *)
(* characters: Utf8Len keeps the two apart.                                *)
(***************************************************************************)
EXTENDS Integers, Sequences, FiniteSets, TLC

VARIABLES
    dict,          \* the dictionary text handed to Game::from
    pc,            \* position of main: "start", "ready", "loop", "read", "exited",
                   \* "panicked", "aborted"
    word,          \* Game.word
    keep_going,    \* Game.keep_going
    used_letters,  \* Game.used_letters: a map, DOMAIN = its key set
    input,         \* repl's local `input`
    stdin_eof,     \* standard input has reached end-of-file
    out,           \* what the last step printed, one record per print
    res,           \* history: what Game::guess returned in the last step
    submitted,     \* history: characters of every guess that passed the length check
    exit_status    \* how the process ended: "running", "success" or "failure"

vars == <<dict, pc, word, keep_going, used_letters, input, stdin_eof, out,
          res, submitted, exit_status>>

-----------------------------------------------------------------------------
(* Characters and text *)

\* U+00E9 (e acute): one character, two bytes in UTF-8.
EAcute == "U+00E9"

LETTERS ==
    << "a", "b", "c", "d", "e", "f", "g", "h", "i", "j", "k", "l", "m",
       "n", "o", "p", "q", "r", "s", "t", "u", "v", "w", "x", "y", "z" >>

LetterSet == {LETTERS[i] : i \in 1..Len(LETTERS)}

\* The number of bytes char::len_utf8 gives; every other character of the
\* model is ASCII.
Utf8Len(c) == IF c = EAcute THEN 2 ELSE 1

\* The Unicode scalar value of a character: what the ordering of
\* one-character Strings compares.
CodePoint(c) ==
    IF c \in LetterSet THEN 96 + (CHOOSE i \in 1..Len(LETTERS) : LETTERS[i] = c)
    ELSE IF c = EAcute THEN 233
    ELSE IF c = "/" THEN 47
    ELSE IF c = " " THEN 32
    ELSE IF c = "\r" THEN 13
    ELSE IF c = "\n" THEN 10
    ELSE 0

\* str::len: the length in bytes.
RECURSIVE StrLen(_)
StrLen(s) == IF s = <<>> THEN 0 ELSE Utf8Len(Head(s)) + StrLen(Tail(s))

\* str::contains(char)
Contains(s, c) == \E i \in 1..Len(s) : s[i] = c

\* char::is_whitespace, on the characters of the model
IsWhitespace(c) == c \in {" ", "\n", "\r", "\t"}

\* str::trim: strips leading and trailing whitespace.
RECURSIVE TrimStart(_)
TrimStart(s) ==
    IF s # <<>> /\ IsWhitespace(Head(s)) THEN TrimStart(Tail(s)) ELSE s

RECURSIVE TrimEnd(_)
TrimEnd(s) ==
    IF s # <<>> /\ IsWhitespace(s[Len(s)])
    THEN TrimEnd(SubSeq(s, 1, Len(s) - 1))
    ELSE s

Trim(s) == TrimEnd(TrimStart(s))

\* str::starts_with(char)
StartsWith(s, c) == s # <<>> /\ Head(s) = c

\* str::lines: the text split at "\n"; a line's terminator ("\n" or "\r\n")
\* is not part of it, and a trailing terminator opens no further line.
RECURSIVE Lines(_)
Lines(text) ==
    IF text = <<>> THEN <<>>
    ELSE IF ~Contains(text, "\n") THEN <<text>>
    ELSE LET k == CHOOSE i \in 1..Len(text) :
                      text[i] = "\n" /\ \A j \in 1..(i - 1) : text[j] # "\n"
             raw == SubSeq(text, 1, k - 1)
             line == IF raw # <<>> /\ raw[Len(raw)] = "\r"
                     THEN SubSeq(raw, 1, Len(raw) - 1)
                     ELSE raw
         IN  <<line>> \o Lines(SubSeq(text, k + 1, Len(text)))

-----------------------------------------------------------------------------
(* Bounds of the model *)

\* The longest text typed as a guess, in bytes.
MaxGuessLen == 6

\* The longest text typed after the "/" of a mistyped command, in bytes.
MaxTailLen == 1

\* The characters guesses and dictionaries are written with.
GuessAlphabet == {"a", "b", EAcute}

\* The texts of exactly n bytes.
RECURSIVE TextsOfLen(_)
TextsOfLen(n) ==
    IF n = 0 THEN {<<>>}
    ELSE UNION {{<<c>> \o t : t \in TextsOfLen(n - Utf8Len(c))} :
                   c \in {x \in GuessAlphabet : Utf8Len(x) <= n}}

TextsUpTo(n) == UNION {TextsOfLen(k) : k \in 0..n}

-----------------------------------------------------------------------------
(* GuessChar, Guess, Error *)

\* impl Display for GuessChar: a black, a yellow or a green square.
GlyphOf(gc) ==
    CASE gc = "Absent" -> "U+2B1B"
      [] gc = "OutOfPlace" -> "U+1F7E8"
      [] gc = "Correct" -> "U+1F7E9"

\* impl Display for Guess: the glyphs of its characters, in order.
DisplayGuess(inner) == [i \in 1..Len(inner) |-> GlyphOf(inner[i])]

\* Guess::correct with any() in place of all().
CorrectAny(inner) == \E i \in 1..Len(inner) : inner[i] = "Correct"

\* Guess::correct
Correct(inner) == \A i \in 1..Len(inner) : inner[i] = "Correct"

\* Retryable with InvalidCommand taken for fatal.
RetryableInvalidFatal(kind) ==
    CASE kind = "GuessTooShort" -> TRUE
      [] kind = "GuessTooLong" -> TRUE
      [] kind = "InvalidCommand" -> FALSE
      [] kind = "IoError" -> FALSE

\* Error::retryable
Retryable(kind) ==
    CASE kind = "GuessTooShort" -> TRUE
      [] kind = "GuessTooLong" -> TRUE
      [] kind = "InvalidCommand" -> TRUE
      [] kind = "IoError" -> FALSE

\* impl Display for Error
DisplayError(kind) ==
    CASE kind = "GuessTooShort" -> "guess too short, guesses must be 5 letters."
      [] kind = "GuessTooLong" -> "guess too long, guesses must be 5 letters."
      [] kind = "InvalidCommand" ->
            "unknown command. use /help to list all available commands"
      [] kind = "IoError" -> "io error"

\* Result<Guess, Error>, and the value `res` holds while guess was not called.
Ok(inner) == [ok |-> TRUE, inner |-> inner, kind |-> "None"]
Err(kind) == [ok |-> FALSE, inner |-> <<>>, kind |-> kind]
NotCalled == [ok |-> FALSE, inner |-> <<>>, kind |-> "NotCalled"]

\* One print: what was printed and the characters or lines it is made of.
Printed(what, text) == [what |-> what, text |-> text]

Prompt == Printed("prompt", <<">", " ">>)

-----------------------------------------------------------------------------
(* Game *)

\* The length Game::guess requires of a guess.
WordLen == 5

\* Game::help
Help == <<Printed("help", <<"Welcome to Wordler!">>)>>

\* Vec::sort on one-character Strings: ascending by scalar value.
RECURSIVE Sort(_)
Sort(S) ==
    IF S = {} THEN <<>>
    ELSE LET least == CHOOSE c \in S : \A d \in S : CodePoint(c) <= CodePoint(d)
         IN  <<least>> \o Sort(S \ {least})

\* [String]::join
RECURSIVE Join(_, _)
Join(items, sep) ==
    IF Len(items) <= 1 THEN items
    ELSE <<Head(items), sep>> \o Join(Tail(items), sep)

\* Game::letters: the keys mapped to false, sorted, joined by spaces.
Letters(used) ==
    LET unused == {k \in DOMAIN used : ~used[k]}
    IN  <<Printed("letters", Join(Sort(unused), " "))>>

\* Classify with the outcomes of its first two branches exchanged.
ClassifySwapped(secret, same_pos, c) ==
    IF c = same_pos THEN "OutOfPlace"
    ELSE IF Contains(secret, c) THEN "Correct"
    ELSE "Absent"

\* Classify without the search of the secret for a character out of place.
ClassifyNoSearch(secret, same_pos, c) ==
    IF c = same_pos THEN "Correct" ELSE "Absent"

\* Game::guess, the classification of one character (lines 184-190).
Classify(secret, same_pos, c) ==
    IF c = same_pos THEN "Correct"
    ELSE IF Contains(secret, c) THEN "OutOfPlace"
    ELSE "Absent"

\* MarkUsed without or_insert: only a key the map already holds is flagged.
MarkUsedNoInsert(used, c) ==
    [k \in DOMAIN used |-> IF k = c THEN TRUE ELSE used[k]]

\* MarkUsed with or_insert(false): a new key is added unflagged.
MarkUsedInsertsFalse(used, c) ==
    [k \in (DOMAIN used) \cup {c} |->
        IF k \in DOMAIN used THEN (IF k = c THEN TRUE ELSE used[k]) ELSE FALSE]

\* Game::guess, lines 195-198: entry(c).and_modify(|e| *e = true).or_insert(true)
MarkUsed(used, c) ==
    [k \in (DOMAIN used) \cup {c} |-> IF k = c THEN TRUE ELSE used[k]]

\* Compare over guess.chars().zip(word.chars()): it stops at the shorter of the
\* two instead of returning an error.
RECURSIVE CompareZip(_, _, _, _, _)
CompareZip(secret, guess, i, acc, used) ==
    IF i > Len(guess) \/ i > Len(secret) THEN [result |-> Ok(acc), used |-> used]
    ELSE CompareZip(secret, guess, i + 1,
                    Append(acc, Classify(secret, secret[i], guess[i])),
                    MarkUsed(used, guess[i]))

\* Game::guess, the loop of lines 176-199 from the i-th character of the
\* guess on: word_chars.next() is None once the secret has no i-th character.
RECURSIVE Compare(_, _, _, _, _)
Compare(secret, guess, i, acc, used) ==
    IF i > Len(guess) THEN [result |-> Ok(acc), used |-> used]
    ELSE IF i > Len(secret) THEN [result |-> Err("GuessTooLong"), used |-> used]
    ELSE Compare(secret, guess, i + 1,
                 Append(acc, Classify(secret, secret[i], guess[i])),
                 MarkUsed(used, guess[i]))

\* Game::guess, lines 167-171: the check of guess.len().
LengthCheck(guess) ==
    IF StrLen(guess) < WordLen THEN "GuessTooShort"
    ELSE IF StrLen(guess) > WordLen THEN "GuessTooLong"
    ELSE "Pass"

\* Guess answering GuessTooLong to a guess that repeats a character an earlier
\* guess has flagged.
GuessOncePerLetter(secret, used, guess) ==
    IF LengthCheck(guess) # "Pass"
    THEN [result |-> Err(LengthCheck(guess)), used |-> used]
    ELSE IF \E i \in 1..Len(guess) : guess[i] \in DOMAIN used /\ used[guess[i]]
    THEN [result |-> Err("GuessTooLong"), used |-> used]
    ELSE Compare(secret, guess, 1, <<>>, used)

\* Game::guess: the result and the used_letters it leaves.
Guess(secret, used, guess) ==
    IF LengthCheck(guess) # "Pass"
    THEN [result |-> Err(LengthCheck(guess)), used |-> used]
    ELSE Compare(secret, guess, 1, <<>>, used)

-----------------------------------------------------------------------------
(* Command *)

HelpCommand == <<"/", "h", "e", "l", "p">>
LettersCommand == <<"/", "l", "e", "t", "t", "e", "r", "s">>
ExitCommand == <<"/", "e", "x", "i", "t">>

\* FromStr without the arm for the other texts that start with "/".
FromStrNoInvalid(com) ==
    IF com = HelpCommand THEN [ok |-> TRUE, cmd |-> "Help", guess |-> <<>>]
    ELSE IF com = LettersCommand THEN [ok |-> TRUE, cmd |-> "Letters", guess |-> <<>>]
    ELSE IF com = ExitCommand THEN [ok |-> TRUE, cmd |-> "Exit", guess |-> <<>>]
    ELSE [ok |-> TRUE, cmd |-> "Guess", guess |-> com]

\* impl FromStr for Command
FromStr(com) ==
    IF com = HelpCommand THEN [ok |-> TRUE, cmd |-> "Help", guess |-> <<>>]
    ELSE IF com = LettersCommand THEN [ok |-> TRUE, cmd |-> "Letters", guess |-> <<>>]
    ELSE IF com = ExitCommand THEN [ok |-> TRUE, cmd |-> "Exit", guess |-> <<>>]
    ELSE IF StartsWith(com, "/") THEN [ok |-> FALSE, cmd |-> "InvalidCommand", guess |-> <<>>]
    ELSE [ok |-> TRUE, cmd |-> "Guess", guess |-> com]

\* Game::eval, Command::Guess (lines 208-217): the fields it leaves, what it
\* prints and what guess returned.
EvalGuess(secret, keep, used, guess) ==
    LET g == Guess(secret, used, guess)
    IN  IF g.result.ok
        THEN [keep_going |-> IF Correct(g.result.inner) THEN FALSE ELSE keep,
              used_letters |-> g.used,
              res |-> g.result,
              out |-> <<Printed("guess", DisplayGuess(g.result.inner))>>
                      \o (IF Correct(g.result.inner)
                          THEN <<Printed("congrats", <<"Congrats!">>)>>
                          ELSE <<>>)]
        ELSE [keep_going |-> keep,
              used_letters |-> g.used,
              res |-> g.result,
              out |-> <<Printed("error", <<DisplayError(g.result.kind)>>)>>]

\* EvalExit leaving keep_going as it was.
EvalExitKeepsGoing(keep, used) ==
    [keep_going |-> keep, used_letters |-> used, res |-> NotCalled, out |-> <<>>]

\* Game::eval, Command::Exit (line 220)
EvalExit(keep, used) ==
    [keep_going |-> FALSE, used_letters |-> used, res |-> NotCalled, out |-> <<>>]

\* Eval with /help building the map of used letters anew.
EvalHelpResets(secret, keep, used, c) ==
    CASE c.cmd = "Guess" -> EvalGuess(secret, keep, used, c.guess)
      [] c.cmd = "Help" ->
            [keep_going |-> keep, used_letters |-> [k \in DOMAIN used |-> FALSE],
             res |-> NotCalled, out |-> Help]
      [] c.cmd = "Letters" ->
            [keep_going |-> keep, used_letters |-> used, res |-> NotCalled,
             out |-> Letters(used)]
      [] c.cmd = "Exit" -> EvalExit(keep, used)

\* Game::eval
Eval(secret, keep, used, c) ==
    CASE c.cmd = "Guess" -> EvalGuess(secret, keep, used, c.guess)
      [] c.cmd = "Help" ->
            [keep_going |-> keep, used_letters |-> used, res |-> NotCalled,
             out |-> Help]
      [] c.cmd = "Letters" ->
            [keep_going |-> keep, used_letters |-> used, res |-> NotCalled,
             out |-> Letters(used)]
      [] c.cmd = "Exit" -> EvalExit(keep, used)

-----------------------------------------------------------------------------
(* impl From<String> for Game *)

\* The word the empty dictionary is meant to fall back to.
Fallback == <<"f", "u", "d", "g", "e">>

\* gen_range over low..=high.
GenRangeInclusive(low, high) == low..high

\* Rng::gen_range(low..high): the values it can draw; it panics on an empty range.
GenRange(low, high) == low..(high - 1)

\* Iterator::nth(n).unwrap_or(default), n counted from 0.
NthOr(items, n, default) == IF n < Len(items) THEN items[n + 1] ELSE default

\* The dictionaries a Game is built from.
Dictionaries ==
    { <<>>,
      <<"a", "b", "a", "b", "a", "\n">>,
      <<"a", "b", "b", "b", "b", "\n", "b", "a", "a", "a", "b">>,
      <<"a", "b", "a", "b", "\r", "\n", "a", "b", "a", "b", "a", "b", "\r", "\n">>,
      <<"a", "a", "a", EAcute, "\n">> }

Commands == {HelpCommand, LettersCommand, ExitCommand}

\* What is typed with a leading "/": the commands, and mistyped ones.
TypedCommands ==
    Commands \cup {<<"/">> \o t : t \in TextsUpTo(MaxTailLen)}
             \cup {c \o t : c \in Commands, t \in TextsUpTo(MaxTailLen)}

\* The lines standard input delivers: a typed text and its newline; a
\* command, or a word of a dictionary, also padded with blanks.
RawLines ==
    {t \o <<"\n">> : t \in TextsUpTo(MaxGuessLen) \cup TypedCommands}
        \cup {<<" ">> \o t \o <<" ", "\r", "\n">> :
                 t \in TypedCommands
                       \cup UNION {{Lines(d)[i] : i \in 1..Len(Lines(d))} :
                                      d \in Dictionaries}}

-----------------------------------------------------------------------------
(* The program *)

Init ==
    /\ dict \in Dictionaries
    /\ pc = "start"
    /\ word = <<>>
    /\ keep_going = FALSE
    /\ used_letters = <<>>
    /\ input = <<>>
    /\ stdin_eof = FALSE
    /\ out = <<>>
    /\ res = NotCalled
    /\ submitted = {}
    /\ exit_status = "running"

\* main, line 303: Game::from(String::from(DICT)).  gen_range panics when the
\* dictionary has no line.
New ==
    /\ pc = "start"
    /\ LET words == Lines(dict)
           range == GenRange(0, Len(words))
       IN  IF range = {}
           THEN /\ pc' = "panicked"
                /\ exit_status' = "failure"
                /\ UNCHANGED <<word, keep_going, used_letters, out>>
           ELSE /\ \E n \in range : word' = NthOr(words, n, Fallback)
                /\ keep_going' = TRUE
                /\ used_letters' = [l \in LetterSet |-> FALSE]
                /\ out' = <<Printed("debug", word')>>
                /\ pc' = "ready"
                /\ UNCHANGED exit_status
    /\ UNCHANGED <<dict, input, stdin_eof, res, submitted>>

\* Game::repl, lines 227-229: the help text, then the loop.
ReplBegin ==
    /\ pc = "ready"
    /\ pc' = "loop"
    /\ out' = Help
    /\ input' = <<>>
    /\ UNCHANGED <<dict, word, keep_going, used_letters, stdin_eof, res,
                   submitted, exit_status>>

\* Game::repl, lines 230-234: the prompt, the flush and a read that succeeds;
\* read_line appends the line to `input`, and nothing at end-of-file.
ReadLine ==
    /\ pc = "loop"
    /\ keep_going
    /\ \E raw \in IF stdin_eof THEN {<<>>} ELSE RawLines \cup {<<>>} :
          /\ input' = input \o raw
          /\ stdin_eof' = (raw = <<>>)
    /\ pc' = "read"
    /\ out' = <<Prompt>>
    /\ res' = NotCalled
    /\ UNCHANGED <<dict, word, keep_going, used_letters, submitted, exit_status>>

\* Process with Game::guess taking the characters out of the secret as it
\* compares them (drain in place of chars).
ProcessDrainsWord ==
    /\ pc = "read"
    /\ LET c == FromStr(Trim(input))
       IN  IF c.ok
           THEN LET e == Eval(word, keep_going, used_letters, c)
                IN  /\ keep_going' = e.keep_going
                    /\ used_letters' = e.used_letters
                    /\ res' = e.res
                    /\ out' = e.out
                    /\ pc' = "loop"
                    /\ word' = IF c.cmd = "Guess" /\ LengthCheck(c.guess) = "Pass"
                               THEN <<>>
                               ELSE word
                    /\ submitted' =
                         IF c.cmd = "Guess" /\ LengthCheck(c.guess) = "Pass"
                         THEN submitted \cup {c.guess[i] : i \in 1..Len(c.guess)}
                         ELSE submitted
           ELSE /\ out' = <<Printed("error", <<DisplayError(c.cmd)>>)>>
                /\ res' = NotCalled
                /\ pc' = IF Retryable(c.cmd) THEN "loop" ELSE "break"
                /\ UNCHANGED <<keep_going, used_letters, submitted, word>>
    /\ input' = <<>>
    /\ UNCHANGED <<dict, stdin_eof, exit_status>>

\* Game::repl, lines 235-247: the line is trimmed, parsed and evaluated, and
\* `input` is reset.
Process ==
    /\ pc = "read"
    /\ LET c == FromStr(Trim(input))
       IN  IF c.ok
           THEN LET e == Eval(word, keep_going, used_letters, c)
                IN  /\ keep_going' = e.keep_going
                    /\ used_letters' = e.used_letters
                    /\ res' = e.res
                    /\ out' = e.out
                    /\ pc' = "loop"
                    /\ submitted' =
                         IF c.cmd = "Guess" /\ LengthCheck(c.guess) = "Pass"
                         THEN submitted \cup {c.guess[i] : i \in 1..Len(c.guess)}
                         ELSE submitted
           ELSE /\ out' = <<Printed("error", <<DisplayError(c.cmd)>>)>>
                /\ res' = NotCalled
                /\ pc' = IF Retryable(c.cmd) THEN "loop" ELSE "break"
                /\ UNCHANGED <<keep_going, used_letters, submitted>>
    /\ input' = <<>>
    /\ UNCHANGED <<dict, word, stdin_eof, exit_status>>

\* Game::repl, lines 232 and 234: the flush or the read fails, `?` returns
\* the error, and main's unwrap (line 304) panics.
IoFailure ==
    /\ pc = "loop"
    /\ keep_going
    /\ pc' = "aborted"
    /\ out' = <<Prompt>>
    /\ exit_status' = "failure"
    /\ UNCHANGED <<dict, word, keep_going, used_letters, input, stdin_eof,
                   res, submitted>>

\* Game::repl, lines 230 and 250: keep_going is false, the loop ends and
\* repl returns Ok(()); main ends with status 0.
ReplReturn ==
    /\ pc = "loop"
    /\ ~keep_going
    /\ pc' = "exited"
    /\ out' = <<>>
    /\ exit_status' = "success"
    /\ UNCHANGED <<dict, word, keep_going, used_letters, input, stdin_eof,
                   res, submitted>>

Next == New \/ ReplBegin \/ ReadLine \/ Process \/ IoFailure \/ ReplReturn

\* The program runs on: a line read is processed, a loop whose condition is
\* false returns, and a read at end-of-file returns at once (a read of an open
\* terminal may wait for ever).
\* Process is enabled exactly when pc = "read" and always leaves it, so
\* WF_vars(Process) is written by what it means: pc = "read" does not last.
Fairness ==
    /\ []<>(pc # "read")
    /\ WF_vars(ReplReturn)
    /\ WF_vars(stdin_eof /\ ReadLine)

FairSpec == Init /\ [][Next]_vars /\ Fairness

Spec == Init /\ [][Next]_vars

-----------------------------------------------------------------------------
(* Properties.  A step from pc = "read" is Process: it evaluates the text    *)
(* Trim(input); res' differs from NotCalled exactly when it called           *)
(* Game::guess, with that text as the guess.                                 *)

TypedText == Trim(input)

GuessCalled == pc = "read" /\ res' # NotCalled

GuessAccepted == pc = "read" /\ res'.ok

\* C1: in every result Game::guess returns for an accepted guess, the outcome
\* at position i is Correct if and only if the guess and the secret hold the
\* same character at position i.
C1_CorrectIffSameCharacter ==
    [][GuessAccepted =>
          \A i \in 1..Len(TypedText) :
              (i <= Len(res'.inner) /\ res'.inner[i] = "Correct")
                  <=> (i <= Len(word) /\ TypedText[i] = word[i])]_vars

\* C1: a returned result with a Correct and a not Correct outcome.
C1_Witness ==
    /\ pc = "loop"
    /\ res.ok
    /\ \E i, j \in 1..Len(res.inner) :
          res.inner[i] = "Correct" /\ res.inner[j] # "Correct"

\* C2: at every position of an accepted guess whose character differs from the
\* secret's, the outcome is OutOfPlace if the secret contains the character
\* anywhere and Absent otherwise, whatever the other positions of the guess
\* hold.
C2_OutOfPlaceIffContained ==
    [][GuessAccepted =>
          \A i \in 1..Len(TypedText) :
              /\ i <= Len(word)
              /\ i <= Len(res'.inner)
              /\ TypedText[i] # word[i] =>
                    res'.inner[i] = IF \E k \in 1..Len(word) : word[k] = TypedText[i]
                                    THEN "OutOfPlace"
                                    ELSE "Absent"]_vars

\* C2: the secret holds "a" once and otherwise "b", and the result is
\* OutOfPlace at two positions where the secret holds "b": the guess held "a"
\* at both.
C2_Witness ==
    /\ pc = "loop"
    /\ res.ok
    /\ \A k \in 1..Len(word) : word[k] \in {"a", "b"}
    /\ Cardinality({k \in 1..Len(word) : word[k] = "a"}) = 1
    /\ Cardinality({i \in 1..Len(res.inner) :
                       res.inner[i] = "OutOfPlace" /\ word[i] = "b"}) >= 2

\* C3 (as claimed): every guess of fewer than 5 characters is answered
\* GuessTooShort and every guess of more than 5 characters GuessTooLong, with
\* no classification.
C3_ErrorByCharacterCount ==
    [][GuessCalled =>
          /\ Len(TypedText) < WordLen => res' = Err("GuessTooShort")
          /\ Len(TypedText) > WordLen => res' = Err("GuessTooLong")]_vars

\* C4 (as claimed): the result of a guess is winning if and only if the guess
\* equals the secret.
C4_WinningIffSecret ==
    [][GuessCalled =>
          ((res'.ok /\ Correct(res'.inner)) <=> TypedText = word)]_vars

\* C5 (as claimed): a line equal to the secret prints the result, all Correct,
\* then the celebration, and sets keep_going to false; with keep_going false
\* the loop exits without another read.
C5_SecretWins ==
    [][/\ (pc = "read" /\ TypedText = word) =>
              /\ out' = << Printed("guess", [i \in 1..Len(word) |-> GlyphOf("Correct")]),
                           Printed("congrats", <<"Congrats!">>) >>
              /\ keep_going' = FALSE
              /\ pc' = "loop"
       /\ (pc = "loop" /\ ~keep_going) =>
              pc' = "exited" /\ input' = input /\ out' = <<>>]_vars

\* C6 (as claimed): a Game built from the empty dictionary is built without
\* failure, with the secret "fudge".
C6_EmptyDictionaryFallsBack ==
    (dict = <<>> /\ pc # "start") => (pc # "panicked" /\ word = Fallback)

\* w is a line of text: it starts at the start of text or after a "\n", holds
\* no "\n", and ends at the end of text or before a line terminator, "\n" or
\* "\r\n".
IsLineOf(w, text) ==
    /\ \A k \in 1..Len(w) : w[k] # "\n"
    /\ \E s \in 1..Len(text) :
          LET e == s + Len(w) - 1
          IN  /\ s = 1 \/ text[s - 1] = "\n"
              /\ e <= Len(text)
              /\ \A k \in 1..Len(w) : text[s + k - 1] = w[k]
              /\ \/ e = Len(text)
                 \/ text[e + 1] = "\n" /\ (w = <<>> \/ w[Len(w)] # "\r")
                 \/ e + 2 <= Len(text) /\ text[e + 1] = "\r" /\ text[e + 2] = "\n"

\* C7: a Game built from a dictionary that is not empty is built without
\* failure, and its secret is one of the dictionary's lines, whole.
C7_SecretIsALine ==
    (dict # <<>> /\ pc # "start") => (pc # "panicked" /\ IsLineOf(word, dict))

\* C7: the secret drawn is the last of several lines.
C7_Witness ==
    /\ pc = "loop"
    /\ \E s \in 2..Len(dict) :
          dict[s - 1] = "\n" /\ word = SubSeq(dict, s, Len(dict)) /\ word # <<>>

\* The letters /letters printed: its text is letters joined by single blanks.
PrintedLetters(text) == {text[i] : i \in {k \in 1..Len(text) : k % 2 = 1}}

\* C8 (as claimed): /letters prints, ascending, exactly the letters a-z that
\* occur in no earlier guess that passed the length check.
C8_LettersNotSubmitted ==
    [][(pc = "read" /\ TypedText = LettersCommand) =>
          /\ Len(out') = 1
          /\ out'[1].what = "letters"
          /\ \A i \in 1..Len(out'[1].text) :
                /\ i % 2 = 0 => out'[1].text[i] = " "
                /\ (i % 2 = 1 /\ i > 2) =>
                      CodePoint(out'[1].text[i - 2]) < CodePoint(out'[1].text[i])
          /\ PrintedLetters(out'[1].text) = LetterSet \ submitted]_vars

\* C9: /exit sets keep_going to false, calls no guess and changes neither the
\* secret nor used_letters; the loop then ends, repl returns Ok, and nothing
\* more is read or printed.
C9_ExitTerminates ==
    [][/\ (pc = "read" /\ TypedText = ExitCommand) =>
              /\ keep_going' = FALSE
              /\ res' = NotCalled
              /\ word' = word
              /\ used_letters' = used_letters
              /\ out' = <<>>
              /\ pc' = "loop"
       /\ (pc = "loop" /\ ~keep_going) =>
              /\ pc' = "exited"
              /\ exit_status' = "success"
              /\ input' = input
              /\ out' = <<>>]_vars

\* C9: the session has ended by /exit: no guess was called in its last step.
C9_Witness ==
    pc = "exited" /\ exit_status = "success" /\ res = NotCalled /\ ~keep_going

\* C10: a text that starts with "/" and is none of /help, /letters and /exit
\* prints the one message of InvalidCommand, calls no guess, leaves the secret,
\* used_letters and keep_going as they were, and the loop goes on.
C10_InvalidCommand ==
    [][(pc = "read" /\ StartsWith(TypedText, "/") /\ TypedText \notin Commands) =>
          /\ out' = <<Printed("error",
                        <<"unknown command. use /help to list all available commands">>)>>
          /\ res' = NotCalled
          /\ word' = word
          /\ used_letters' = used_letters
          /\ keep_going' = keep_going
          /\ keep_going'
          /\ pc' = "loop"]_vars

\* C10: the message of InvalidCommand was printed and the loop is at its head.
C10_Witness ==
    /\ pc = "loop"
    /\ keep_going
    /\ out = <<Printed("error",
                 <<"unknown command. use /help to list all available commands">>)>>

\* The message a print of one error line carries.
ErrorLine(kind) == <<Printed("error", <<DisplayError(kind)>>)>>

\* C11: a failed flush or read ends the loop at once: main ends with a failure
\* status, the Game and `input` as they were, and no step follows; a step that
\* reports GuessTooShort, GuessTooLong or InvalidCommand leaves the loop
\* running, and the process fails only by that abort or by a panic of
\* construction.
C11_OnlyIoFailureAborts ==
    [][/\ pc # "aborted"
       /\ pc' = "aborted" =>
              /\ pc = "loop"
              /\ exit_status' = "failure"
              /\ input' = input
              /\ res' = res
              /\ word' = word
              /\ used_letters' = used_letters
       /\ (pc = "read" /\ \E kind \in {"GuessTooShort", "GuessTooLong", "InvalidCommand"} :
                              out' = ErrorLine(kind)) =>
              /\ pc' = "loop"
              /\ keep_going'
              /\ exit_status' = "running"
       /\ (exit_status = "running" /\ exit_status' = "failure") =>
              pc' \in {"aborted", "panicked"}]_vars

\* C11: the loop was aborted at its prompt, after an earlier iteration had
\* evaluated a guess.
C11_Witness ==
    /\ pc = "aborted"
    /\ exit_status = "failure"
    /\ out = <<Prompt>>
    /\ \E k \in DOMAIN used_letters : used_letters[k]

\* C12 (as claimed): when Game::guess returns an error, used_letters is what
\* it was before the call, keep_going stays true and exactly one error line is
\* printed before the next prompt.
C12_ErrorChangesNothing ==
    [][(GuessCalled /\ ~res'.ok) =>
          /\ used_letters' = used_letters
          /\ keep_going'
          /\ pc' = "loop"
          /\ out' = ErrorLine(res'.kind)]_vars

\* The characters flagged as used.
Flagged(used) == {k \in DOMAIN used : used[k]}

\* The characters of a text.
CharsOf(text) == {text[i] : i \in 1..Len(text)}

\* C13: when Game::guess accepts a guess, the characters flagged are those
\* flagged before and those of the guess, and no other key changes; no step of
\* the session takes a flag back.
C13_FlagsGrowByTheGuess ==
    [][/\ GuessAccepted =>
              /\ Flagged(used_letters') = Flagged(used_letters) \cup CharsOf(TypedText)
              /\ \A k \in (DOMAIN used_letters) \ CharsOf(TypedText) :
                    k \in DOMAIN used_letters' /\ used_letters'[k] = used_letters[k]
       /\ Flagged(used_letters) \subseteq Flagged(used_letters')]_vars

\* C13: an accepted guess has flagged a letter and a character that was no
\* key of the map.
C13_Witness ==
    /\ pc = "loop"
    /\ res.ok
    /\ Flagged(used_letters) = {"a", EAcute}

\* C14: /help and /letters leave the secret, used_letters and keep_going as
\* they were, and call no guess.
C14_HelpAndLettersChangeNothing ==
    [][(pc = "read" /\ TypedText \in {HelpCommand, LettersCommand}) =>
          /\ word' = word
          /\ used_letters' = used_letters
          /\ keep_going' = keep_going
          /\ res' = NotCalled
          /\ pc' = "loop"]_vars

\* C14: /letters was evaluated in a session that has flagged letters, and the
\* flags are still there.
C14_Witness ==
    /\ pc = "loop"
    /\ Len(out) = 1
    /\ out[1].what = "letters"
    /\ Flagged(used_letters) # {}
    /\ keep_going

\* C15: once the Game is built, keep_going false stays false, and the only
\* step left is the loop's exit: nothing is read, no guess is called and
\* used_letters is not changed; keep_going turns false only in the step that
\* evaluates /exit or a guess whose result is all Correct.
C15_StoppedIsAbsorbing ==
    [][/\ (pc # "start" /\ ~keep_going) =>
              /\ ~keep_going'
              /\ pc' = "exited"
              /\ input' = input
              /\ stdin_eof' = stdin_eof
              /\ res' = res
              /\ used_letters' = used_letters
       /\ (keep_going /\ ~keep_going') =>
              /\ pc = "read"
              /\ \/ TypedText = ExitCommand
                 \/ res'.ok /\ \A i \in 1..Len(res'.inner) : res'.inner[i] = "Correct"]_vars

\* C15: the session has ended after a winning guess.
C15_Witness ==
    /\ pc = "exited"
    /\ ~keep_going
    /\ res.ok
    /\ \A i \in 1..Len(res.inner) : res.inner[i] = "Correct"

\* C16: a result Game::guess returns holds one outcome for each character of
\* the guess, and at least one.
C16_OneOutcomePerCharacter ==
    [][GuessAccepted =>
          /\ Len(res'.inner) = Len(TypedText)
          /\ Len(res'.inner) > 0
          /\ \A i \in 1..Len(res'.inner) :
                res'.inner[i] \in {"Correct", "OutOfPlace", "Absent"}]_vars

\* C16: a result of fewer outcomes than the 5 bytes of its guess: the guess
\* held a character of two bytes.
C16_Witness ==
    /\ pc = "loop"
    /\ res.ok
    /\ Len(res.inner) < WordLen

\* The Game's used_letters as Game::from leaves it: no guess yet.
FreshLetters == [l \in LetterSet |-> FALSE]

\* C17: what Game::guess returns for a guess, the classification or the kind
\* of error, is what it returns for that guess in a session of the same secret
\* that has evaluated nothing yet.
C17_OutcomeIgnoresHistory ==
    [][GuessCalled =>
          res' = Guess(word, FreshLetters, TypedText).result]_vars

\* C17: a guess was answered GuessTooShort, which flags nothing, in a session
\* whose earlier guesses have flagged letters.
C17_Witness ==
    /\ pc = "loop"
    /\ res = Err("GuessTooShort")
    /\ Flagged(used_letters) # {}

\* C18: once the Game is built, no step changes the secret.
C18_SecretNeverChanges ==
    [][pc # "start" => word' = word]_vars

\* C18: a session with a secret has evaluated an accepted guess, an error and
\* is past its last step.
C18_Witness ==
    /\ pc = "exited"
    /\ word # <<>>
    /\ Flagged(used_letters) # {}

\* C19 (as claimed): once a read has met end-of-file, the session loop
\* eventually ends.
C19_EofEndsTheLoop ==
    (pc = "read" /\ stdin_eof) ~> (pc \in {"exited", "aborted"})

\* A Game exists: construction is over and did not panic.
Built == pc \notin {"start", "panicked"}

\* C20 (as claimed): the keys of used_letters are exactly the letters a-z.
C20_KeysAreTheLetters ==
    Built => DOMAIN used_letters = LetterSet

\* C20 (amended): the keys of used_letters are the letters a-z and, flagged,
\* the characters outside a-z of the guesses that passed the length check.
C20_KeysHoldTheLetters ==
    Built =>
        /\ LetterSet \subseteq DOMAIN used_letters
        /\ \A k \in (DOMAIN used_letters) \ LetterSet :
              used_letters[k] /\ k \in submitted

\* C20: a guess has added a key outside a-z.
C20_Witness ==
    /\ pc = "loop"
    /\ EAcute \in DOMAIN used_letters
    /\ res # NotCalled

====
